---- MODULE Spec2Model ----
(***************************************************************************)
(* Model of tasks.py: the invoke task `newday(c, day)`.                    *)
(*                                                                         *)
(*   day = int(day)                                            (line 7)    *)
(*   c.run(f"mkdir -p puzzles/{day:d}/")                       (line 9)    *)
(*   if not os.path.exists(f"src/puzzles/day{day:d}.rs"):      (line 11)   *)
(*       c.run(f"cp templates/dayn.rs src/puzzles/day{day:d}.rs") (12)     *)
(*                                                                         *)
(* The state is the part of the filesystem the task reads and writes and,  *)
(* for each running invocation, its position in the four lines above.      *)
(* A path is the sequence of its components, relative to the working       *)
(* directory; <<>> is the working directory itself.                        *)
(***************************************************************************)
EXTENDS Integers, Sequences, FiniteSets, TLC

VARIABLES fs, pc, day, err, buf, ran, lost, start, base, last, edits, calls

vars == <<fs, pc, day, err, buf, ran, lost, start, base, last, edits, calls>>

(***************************************************************************)
(* Bounds.                                                                 *)
(***************************************************************************)
MaxCalls == 2

Procs == {1, 2}

(***************************************************************************)
(* Values of the Python local `day`: the caller's string before line 7,    *)
(* the parsed integer after it.                                            *)
(***************************************************************************)
Str(s) == [type |-> "str", s |-> s, n |-> 0]
Int_(n) == [type |-> "int", s |-> <<>>, n |-> n]

(***************************************************************************)
(* int(day), line 7.  Python strips surrounding whitespace, accepts one    *)
(* optional sign, then needs at least one decimal digit; single            *)
(* underscores are allowed between digits.  Anything else raises           *)
(* ValueError.  A string is a sequence of one-character strings.           *)
(***************************************************************************)
DigitVal == ("0" :> 0) @@ ("1" :> 1) @@ ("2" :> 2) @@ ("3" :> 3) @@ ("4" :> 4)
            @@ ("5" :> 5) @@ ("6" :> 6) @@ ("7" :> 7) @@ ("8" :> 8) @@ ("9" :> 9)

IsDigit(ch) == ch \in DOMAIN DigitVal

IsSpace(ch) == ch \in {" ", "\t", "\n"}

RECURSIVE LStrip(_)
LStrip(s) == IF s # <<>> /\ IsSpace(Head(s)) THEN LStrip(Tail(s)) ELSE s

RECURSIVE RStrip(_)
RStrip(s) == IF s # <<>> /\ IsSpace(s[Len(s)])
             THEN RStrip(SubSeq(s, 1, Len(s) - 1)) ELSE s

Strip(s) == RStrip(LStrip(s))

\* digits with single underscores between them: d(_?d)*
RECURSIVE IsDigits(_)
IsDigits(s) ==
    IF s = <<>> THEN FALSE
    ELSE IF ~IsDigit(Head(s)) THEN FALSE
    ELSE IF Len(s) = 1 THEN TRUE
    ELSE IF s[2] = "_" THEN IsDigits(SubSeq(s, 3, Len(s)))
    ELSE IsDigits(Tail(s))

RECURSIVE DigitsValue(_, _)
DigitsValue(s, acc) ==
    IF s = <<>> THEN acc
    ELSE IF Head(s) = "_" THEN DigitsValue(Tail(s), acc)
    ELSE DigitsValue(Tail(s), 10 * acc + DigitVal[Head(s)])

\* variant: a string that is no integer literal is read as 0
PyIntLenient(s) ==
    LET t == Strip(s)
        neg == t # <<>> /\ Head(t) = "-"
        body == IF t # <<>> /\ Head(t) \in {"+", "-"} THEN Tail(t) ELSE t
    IN  IF IsDigits(body)
        THEN [ok |-> TRUE, n |-> IF neg THEN 0 - DigitsValue(body, 0)
                                        ELSE DigitsValue(body, 0)]
        ELSE [ok |-> TRUE, n |-> 0]

PyInt(s) ==
    LET t == Strip(s)
        neg == t # <<>> /\ Head(t) = "-"
        body == IF t # <<>> /\ Head(t) \in {"+", "-"} THEN Tail(t) ELSE t
    IN  IF IsDigits(body)
        THEN [ok |-> TRUE, n |-> IF neg THEN 0 - DigitsValue(body, 0)
                                        ELSE DigitsValue(body, 0)]
        ELSE [ok |-> FALSE, n |-> 0]

(***************************************************************************)
(* The format spec {day:d}: decimal digits, a leading "-" when negative.   *)
(***************************************************************************)
DigitStr == <<"0", "1", "2", "3", "4", "5", "6", "7", "8", "9">>

RECURSIVE FmtNat(_)
FmtNat(n) == IF n < 10 THEN DigitStr[n + 1]
             ELSE FmtNat(n \div 10) \o DigitStr[(n % 10) + 1]

Fmt(n) == IF n < 0 THEN "-" \o FmtNat(0 - n) ELSE FmtNat(n)

(***************************************************************************)
(* The three paths of the task.                                            *)
(***************************************************************************)
PuzzleDir(d) == <<"puzzles", Fmt(d)>>

DayFile(d) == <<"src", "puzzles", "day" \o Fmt(d) \o ".rs">>

Template == <<"templates", "dayn.rs">>

(***************************************************************************)
(* Filesystem: nodes maps each existing path to a directory or a regular   *)
(* file with its contents; ro is the set of directories in which no entry  *)
(* can be created.                                                         *)
(***************************************************************************)
Dir == [kind |-> "dir", data |-> ""]

File(t) == [kind |-> "file", data |-> t]

Parent(path) == SubSeq(path, 1, Len(path) - 1)

Exists(f, path) == path \in DOMAIN f.nodes

IsDir(f, path) == path = <<>> \/ (Exists(f, path) /\ f.nodes[path].kind = "dir")

IsFile(f, path) == Exists(f, path) /\ f.nodes[path].kind = "file"

Put(f, path, node) ==
    [f EXCEPT !.nodes = [q \in (DOMAIN f.nodes) \cup {path} |->
                            IF q = path THEN node ELSE f.nodes[q]]]

(***************************************************************************)
(* mkdir -p path, line 9: walk the prefixes of the path; an existing       *)
(* directory is passed over, an existing non-directory or a parent that    *)
(* cannot be written makes the command exit non-zero.                      *)
(***************************************************************************)
RECURSIVE MkdirFrom(_, _, _)
MkdirFrom(f, path, k) ==
    IF k > Len(path) THEN [fs |-> f, ok |-> TRUE]
    ELSE LET pre == SubSeq(path, 1, k)
         IN  IF Exists(f, pre)
             THEN IF f.nodes[pre].kind = "dir"
                  THEN MkdirFrom(f, path, k + 1)
                  ELSE [fs |-> f, ok |-> FALSE]
             ELSE IF Parent(pre) \in f.ro
                  THEN [fs |-> f, ok |-> FALSE]
                  ELSE MkdirFrom(Put(f, pre, Dir), path, k + 1)

MkdirP(f, path) == MkdirFrom(f, path, 1)

(***************************************************************************)
(* os.path.exists(f"src/puzzles/day{day:d}.rs"), line 11.                  *)
(***************************************************************************)
\* variant: true as soon as src/puzzles/ holds any entry
AnyDayFileExists(f, d) ==
    \E q \in DOMAIN f.nodes : Len(q) = 3 /\ Parent(q) = Parent(DayFile(d))

\* variant: the path is tested without its src/ prefix
WrongPathExists(f, d) == Exists(f, Tail(DayFile(d)))

DayFileExists(f, d) == Exists(f, DayFile(d))

(***************************************************************************)
(* cp src dst, line 12, in its two filesystem steps.  CpOpen: the source   *)
(* must be a readable regular file; the destination is then opened for     *)
(* writing, which creates it empty or truncates it (a destination that is  *)
(* a directory receives the file under the source's name).  CpWrite: the   *)
(* bytes read from the source are written to the opened target.            *)
(***************************************************************************)
NoText == "<absent>"

CpFail(f) == [fs |-> f, ok |-> FALSE, data |-> "", target |-> <<>>, lost |-> NoText]

CpTarget(f, src, dst) ==
    IF Exists(f, dst) /\ f.nodes[dst].kind = "dir"
    THEN Append(dst, src[Len(src)]) ELSE dst

\* variant: the destination is created before the source is looked at
CpOpenTouch(f, src, dst) ==
    LET t == CpTarget(f, src, dst)
        g == IF ~Exists(f, t) /\ IsDir(f, Parent(t)) /\ Parent(t) \notin f.ro
             THEN Put(f, t, File("")) ELSE f
    IN  IF ~IsFile(f, src) THEN CpFail(g)
        ELSE IF ~Exists(g, t) THEN CpFail(g)
        ELSE [fs |-> Put(g, t, File("")), ok |-> TRUE, data |-> f.nodes[src].data,
              target |-> t,
              lost |-> IF Exists(f, t) THEN f.nodes[t].data ELSE NoText]

\* variant: cp -n, an existing destination is left as it is
CpOpenNoClobber(f, src, dst) ==
    LET t == CpTarget(f, src, dst)
    IN  IF ~IsFile(f, src) THEN CpFail(f)
        ELSE IF Exists(f, t)
             THEN [fs |-> f, ok |-> TRUE, data |-> f.nodes[t].data,
                   target |-> t, lost |-> NoText]
        ELSE IF ~IsDir(f, Parent(t)) \/ Parent(t) \in f.ro THEN CpFail(f)
        ELSE [fs |-> Put(f, t, File("")), ok |-> TRUE, data |-> f.nodes[src].data,
              target |-> t, lost |-> NoText]

\* variant: mv instead of cp, the source is gone afterwards
CpOpenMove(f, src, dst) ==
    LET t == CpTarget(f, src, dst)
        Without(g) == [g EXCEPT !.nodes = [q \in (DOMAIN g.nodes) \ {src} |-> g.nodes[q]]]
    IN  IF ~IsFile(f, src) THEN CpFail(f)
        ELSE IF Exists(f, t) /\ f.nodes[t].kind # "file" THEN CpFail(f)
        ELSE IF ~Exists(f, t) /\ (~IsDir(f, Parent(t)) \/ Parent(t) \in f.ro) THEN CpFail(f)
        ELSE [fs |-> Without(Put(f, t, File(""))), ok |-> TRUE,
              data |-> f.nodes[src].data, target |-> t,
              lost |-> IF Exists(f, t) THEN f.nodes[t].data ELSE NoText]

CpOpen(f, src, dst) ==
    LET t == CpTarget(f, src, dst)
    IN  IF ~IsFile(f, src) THEN CpFail(f)
        ELSE IF Exists(f, t)
             THEN IF f.nodes[t].kind = "file"
                  THEN [fs |-> Put(f, t, File("")), ok |-> TRUE,
                        data |-> f.nodes[src].data, target |-> t,
                        lost |-> f.nodes[t].data]
                  ELSE CpFail(f)
        ELSE IF ~IsDir(f, Parent(t)) \/ Parent(t) \in f.ro THEN CpFail(f)
        ELSE [fs |-> Put(f, t, File("")), ok |-> TRUE, data |-> f.nodes[src].data,
              target |-> t, lost |-> NoText]

\* variant: the opened target is closed without writing
CpWriteNothing(f, target, data) == f

CpWrite(f, target, data) == Put(f, target, File(data))

(***************************************************************************)
(* Sequential composition of the four lines: the filesystem one complete,  *)
(* undisturbed newday(d) leaves behind.                                    *)
(***************************************************************************)
NewdayResult(f, d) ==
    LET m == MkdirP(f, PuzzleDir(d))
    IN  IF ~m.ok THEN m.fs
        ELSE IF DayFileExists(m.fs, d) THEN m.fs
        ELSE LET o == CpOpen(m.fs, Template, DayFile(d))
             IN  IF ~o.ok THEN o.fs ELSE CpWrite(o.fs, o.target, o.data)

(***************************************************************************)
(* Inputs.  Args: the strings a caller passes as `day`.  Texts: what a     *)
(* user's edit leaves in a day file.  TemplateText: the boilerplate.       *)
(***************************************************************************)
GoodArgs == { <<"1">>, <<"0", "1">>, <<"+", "1">>, <<"0", "_", "1">>,
              <<"2">>, <<" ", "2", " ">>, <<"-", "1">> }

BadArgs == { <<"a", "b", "c">>, <<>>, <<"1", ".", "5">>, <<"1", "_", "_", "2">>,
             <<"_", "1">>, <<"-">> }

Args == GoodArgs \cup BadArgs

Days == {1, 2, -1}

EditDays == {1}

Texts == {"solved!"}

TemplateTexts == {"fn main() {}", "// TODO"}

(***************************************************************************)
(* Initial filesystems: every well-formed combination of                   *)
(*   - templates/dayn.rs present or missing,                               *)
(*   - src/puzzles/ present or missing, day1.rs absent or already edited,  *)
(*   - puzzles/ present or missing, puzzles/1 absent, a directory (empty   *)
(*     or holding input.txt) or a regular file,                            *)
(*   - at most one directory that cannot be written.                       *)
(***************************************************************************)
Input1 == <<"puzzles", "1", "input.txt">>

TemplateNodes == {<<>>} \cup {(<<"templates">> :> Dir) @@ (Template :> File(t)) :
                                  t \in TemplateTexts}

SrcNodes == {(<<"src">> :> Dir),
             (<<"src">> :> Dir) @@ (<<"src", "puzzles">> :> Dir),
             (<<"src">> :> Dir) @@ (<<"src", "puzzles">> :> Dir)
                 @@ (DayFile(1) :> File("solved!"))}

PuzzleNodes == {<<>>,
                (<<"puzzles">> :> Dir),
                (<<"puzzles">> :> Dir) @@ (PuzzleDir(1) :> Dir),
                (<<"puzzles">> :> Dir) @@ (PuzzleDir(1) :> Dir)
                    @@ (Input1 :> File("input")),
                (<<"puzzles">> :> Dir) @@ (PuzzleDir(1) :> File("notes"))}

ReadOnly == {{}, {<<>>}, {<<"puzzles">>}, {<<"src", "puzzles">>}}

InitFS == {f \in {[nodes |-> t @@ s @@ z, ro |-> r] :
                      t \in TemplateNodes, s \in SrcNodes, z \in PuzzleNodes,
                      r \in ReadOnly} :
              \A q \in f.ro : IsDir(f, q)}

NoFS == [nodes |-> <<>>, ro |-> {}]

NoLast == [valid |-> FALSE, day |-> Str(<<>>), fs |-> NoFS]

Init ==
    /\ fs \in InitFS
    /\ pc = [p \in Procs |-> "idle"]
    /\ day = [p \in Procs |-> Str(<<>>)]
    /\ err = [p \in Procs |-> ""]
    /\ buf = [p \in Procs |-> [data |-> "", target |-> <<>>]]
    /\ ran = [p \in Procs |-> <<>>]
    /\ lost = [p \in Procs |-> NoText]
    /\ start = [p \in Procs |-> NoFS]
    /\ base = NoFS
    /\ last = NoLast
    /\ edits = {}
    /\ calls = 0

(***************************************************************************)
(* A caller invokes newday(c, day) with the string a.  start, base, ran,   *)
(* lost, last and edits are history variables: the filesystem when this    *)
(* call (start) or the current group of overlapping calls (base) began,    *)
(* the commands the call has run, the contents its cp truncated, the       *)
(* previous finished call, and the day files edited by hand since base.    *)
(***************************************************************************)
AllIdle == \A q \in Procs : pc[q] = "idle"

Call(p, a) ==
    /\ pc[p] = "idle"
    /\ calls < MaxCalls
    /\ pc' = [pc EXCEPT ![p] = "int"]
    /\ day' = [day EXCEPT ![p] = Str(a)]
    /\ start' = [start EXCEPT ![p] = fs]
    /\ base' = IF AllIdle THEN fs ELSE base
    /\ edits' = IF AllIdle THEN {} ELSE edits
    /\ calls' = calls + 1
    /\ UNCHANGED <<fs, err, buf, ran, lost, last>>

\* line 7: day = int(day)
NewdayInt(p) ==
    /\ pc[p] = "int"
    /\ LET v == PyInt(day[p].s)
       IN  IF v.ok
           THEN /\ day' = [day EXCEPT ![p] = Int_(v.n)]
                /\ pc' = [pc EXCEPT ![p] = "mkdir"]
                /\ err' = err
           ELSE /\ day' = day
                /\ pc' = [pc EXCEPT ![p] = "failed"]
                /\ err' = [err EXCEPT ![p] = "ValueError"]
    /\ UNCHANGED <<fs, buf, ran, lost, start, base, last, edits, calls>>

\* variant of line 9 with c.run(..., warn=True): a non-zero exit is ignored
NewdayMkdirWarn(p) ==
    /\ pc[p] = "mkdir"
    /\ LET r == MkdirP(fs, PuzzleDir(day[p].n))
       IN  /\ fs' = r.fs
           /\ pc' = [pc EXCEPT ![p] = "exists"]
           /\ err' = err
    /\ ran' = [ran EXCEPT ![p] = Append(@, "mkdir")]
    /\ UNCHANGED <<day, buf, lost, start, base, last, edits, calls>>

\* line 9: c.run("mkdir -p puzzles/<day>/"); c.run raises on a non-zero exit
NewdayMkdir(p) ==
    /\ pc[p] = "mkdir"
    /\ LET r == MkdirP(fs, PuzzleDir(day[p].n))
       IN  /\ fs' = r.fs
           /\ IF r.ok
              THEN /\ pc' = [pc EXCEPT ![p] = "exists"]
                   /\ err' = err
              ELSE /\ pc' = [pc EXCEPT ![p] = "failed"]
                   /\ err' = [err EXCEPT ![p] = "UnexpectedExit"]
    /\ ran' = [ran EXCEPT ![p] = Append(@, "mkdir")]
    /\ UNCHANGED <<day, buf, lost, start, base, last, edits, calls>>

\* line 11: if not os.path.exists("src/puzzles/day<day>.rs")
NewdayExists(p) ==
    /\ pc[p] = "exists"
    /\ pc' = [pc EXCEPT ![p] = IF DayFileExists(fs, day[p].n) THEN "done" ELSE "cp"]
    /\ ran' = [ran EXCEPT ![p] = Append(@, "exists")]
    /\ UNCHANGED <<fs, day, err, buf, lost, start, base, last, edits, calls>>

\* line 12: c.run("cp templates/dayn.rs src/puzzles/day<day>.rs"), cp starts
NewdayCp(p) ==
    /\ pc[p] = "cp"
    /\ LET o == CpOpen(fs, Template, DayFile(day[p].n))
       IN  /\ fs' = o.fs
           /\ IF o.ok
              THEN /\ pc' = [pc EXCEPT ![p] = "cp_write"]
                   /\ err' = err
                   /\ buf' = [buf EXCEPT ![p] = [data |-> o.data, target |-> o.target]]
                   /\ lost' = [lost EXCEPT ![p] = o.lost]
              ELSE /\ pc' = [pc EXCEPT ![p] = "failed"]
                   /\ err' = [err EXCEPT ![p] = "UnexpectedExit"]
                   /\ UNCHANGED <<buf, lost>>
    /\ ran' = [ran EXCEPT ![p] = Append(@, "cp")]
    /\ UNCHANGED <<day, start, base, last, edits, calls>>

\* line 12, cp writes the bytes it read and exits 0; newday returns
NewdayCpWrite(p) ==
    /\ pc[p] = "cp_write"
    /\ fs' = CpWrite(fs, buf[p].target, buf[p].data)
    /\ pc' = [pc EXCEPT ![p] = "done"]
    /\ UNCHANGED <<day, err, buf, ran, lost, start, base, last, edits, calls>>

\* the invocation is over (returned or raised); the process can call again
Return(p) ==
    /\ pc[p] \in {"done", "failed"}
    /\ last' = [valid |-> TRUE, day |-> day[p], fs |-> fs]
    /\ pc' = [pc EXCEPT ![p] = "idle"]
    /\ day' = [day EXCEPT ![p] = Str(<<>>)]
    /\ err' = [err EXCEPT ![p] = ""]
    /\ buf' = [buf EXCEPT ![p] = [data |-> "", target |-> <<>>]]
    /\ ran' = [ran EXCEPT ![p] = <<>>]
    /\ lost' = [lost EXCEPT ![p] = NoText]
    /\ start' = [start EXCEPT ![p] = NoFS]
    /\ base' = IF \A q \in Procs \ {p} : pc[q] = "idle" THEN NoFS ELSE base
    /\ UNCHANGED <<fs, edits, calls>>

(***************************************************************************)
(* The environment: a user saves text t as the day file of day d.  A save  *)
(* that lands between cp's open and cp's write is left out: what it        *)
(* leaves depends on the editor, not on this program.                      *)
(***************************************************************************)
ManualEdit(d, t) ==
    /\ IsDir(fs, Parent(DayFile(d)))
    /\ IsFile(fs, DayFile(d)) \/ (~Exists(fs, DayFile(d)) /\ Parent(DayFile(d)) \notin fs.ro)
    /\ \A p \in Procs : pc[p] # "cp_write"
    /\ fs' = Put(fs, DayFile(d), File(t))
    /\ edits' = IF AllIdle THEN edits ELSE edits \cup {d}
    /\ UNCHANGED <<pc, day, err, buf, ran, lost, start, base, last, calls>>

EditBetweenCalls(d, t) == AllIdle /\ ManualEdit(d, t)

EditDuringCalls(d, t) == ~AllIdle /\ ManualEdit(d, t)

(***************************************************************************)
(* Spec: two invocations, one per process, interleaved step by step with   *)
(* each other and with the user's edits.                                   *)
(***************************************************************************)
Next ==
    \/ \E p \in Procs, a \in Args : Call(p, a)
    \/ \E p \in Procs : NewdayInt(p)
    \/ \E p \in Procs : NewdayMkdir(p)
    \/ \E p \in Procs : NewdayExists(p)
    \/ \E p \in Procs : NewdayCp(p)
    \/ \E p \in Procs : NewdayCpWrite(p)
    \/ \E d \in EditDays, t \in Texts : EditDuringCalls(d, t)

Spec == Init /\ [][Next]_vars

(***************************************************************************)
(* SpecSeq: sequential use.  One process calls newday again and again;     *)
(* the user edits only between calls.                                      *)
(***************************************************************************)
NextSeq ==
    \/ \E a \in Args : Call(1, a)
    \/ NewdayInt(1)
    \/ NewdayMkdir(1)
    \/ NewdayExists(1)
    \/ NewdayCp(1)
    \/ NewdayCpWrite(1)
    \/ Return(1)
    \/ \E d \in EditDays, t \in Texts : EditBetweenCalls(d, t)

SpecSeq == Init /\ [][NextSeq]_vars

TypeOK ==
    /\ \A p \in Procs : pc[p] \in {"idle", "int", "mkdir", "exists", "cp", "cp_write", "done", "failed"}
    /\ \A a \in GoodArgs : PyInt(a).ok /\ PyInt(a).n \in Days
    /\ \A a \in BadArgs : ~PyInt(a).ok
    /\ calls \in 0..MaxCalls

(***************************************************************************)
(* Properties.                                                             *)
(***************************************************************************)
D(p) == day[p].n

Parsed(p) == pc[p] # "idle" /\ day[p].type = "int"

Past(p, cmd) == \E i \in DOMAIN ran[p] : ran[p][i] = cmd

\* the mkdir command of p's call has exited 0
MkdirDone(p) == Parsed(p) /\ (pc[p] = "exists" \/ Past(p, "exists"))

Finished(p) == pc[p] \in {"done", "failed"}

Under(f, dir) == {q \in DOMAIN f.nodes : Len(q) > Len(dir) /\ SubSeq(q, 1, Len(dir)) = dir}

\* C1: Non-overwrite, sequential use.  If src/puzzles/day<d>.rs is a file
\* when newday(d) is called, the call never runs cp, truncates nothing, the
\* file's contents stay what they were at every point of the call, and once
\* the mkdir command has succeeded the call ends without error, whether or
\* not templates/dayn.rs exists.
C1_NonOverwrite ==
    \A p \in Procs :
        (Parsed(p) /\ IsFile(start[p], DayFile(D(p)))) =>
            /\ ~Past(p, "cp")
            /\ pc[p] \notin {"cp", "cp_write"}
            /\ lost[p] = NoText
            /\ IsFile(fs, DayFile(D(p)))
            /\ fs.nodes[DayFile(D(p))] = start[p].nodes[DayFile(D(p))]
            /\ Past(p, "exists") => (pc[p] = "done" /\ err[p] = "")

C1_Witness ==
    /\ pc[1] = "done"
    /\ Parsed(1)
    /\ IsFile(start[1], DayFile(D(1)))
    /\ ~Exists(start[1], Template)
    /\ ran[1] = <<"mkdir", "exists">>
    /\ fs.nodes[DayFile(D(1))].data = "solved!"

\* C2: If src/puzzles/day<d>.rs does not exist and templates/dayn.rs is a
\* readable file when newday(d) is called, then when the call returns
\* successfully the day file exists and holds exactly the template's bytes.
C2_CopyIsTemplate ==
    \A p \in Procs :
        (/\ pc[p] = "done"
         /\ ~Exists(start[p], DayFile(D(p)))
         /\ IsFile(start[p], Template)) =>
            /\ IsFile(fs, DayFile(D(p)))
            /\ fs.nodes[DayFile(D(p))].data = start[p].nodes[Template].data
            /\ fs.nodes[Template] = start[p].nodes[Template]

C2_Witness ==
    /\ pc[1] = "done"
    /\ D(1) = -1
    /\ ~Exists(start[1], DayFile(-1))
    /\ IsFile(fs, <<"src", "puzzles", "day-1.rs">>)
    /\ fs.nodes[<<"src", "puzzles", "day-1.rs">>].data = "// TODO"

\* C3: Once the mkdir command of newday(d) has succeeded, puzzles/<d>/ is a
\* directory for the rest of the call: created with its missing parent when
\* it was absent, left alone with everything inside it when it was already
\* there, and still there whether the copy then runs, is skipped or fails.
C3_DirExists ==
    \A p \in Procs :
        MkdirDone(p) =>
            /\ IsDir(fs, PuzzleDir(D(p)))
            /\ Exists(fs, PuzzleDir(D(p)))
            /\ Under(fs, PuzzleDir(D(p))) = Under(start[p], PuzzleDir(D(p)))
            /\ \A q \in Under(fs, PuzzleDir(D(p))) : fs.nodes[q] = start[p].nodes[q]

C3_Witness ==
    /\ pc[1] = "failed"
    /\ ran[1] = <<"mkdir", "exists", "cp">>
    /\ ~Exists(start[1], <<"puzzles">>)
    /\ fs.nodes[<<"puzzles">>] = Dir
    /\ fs.nodes[<<"puzzles", "2">>] = Dir
    /\ D(1) = 2

C3_WitnessExisting ==
    /\ pc[1] = "done"
    /\ D(1) = 1
    /\ Exists(start[1], Input1)
    /\ fs.nodes[Input1] = File("input")

\* C4: Idempotence, sequential use.  When a call newday(d) directly follows
\* a finished newday(d) with nothing changed in between, it ends in the
\* filesystem the first call ended in; when the day file was edited by hand
\* in between, the second call leaves the edited contents as they are.
C4_Idempotent ==
    \A p \in Procs :
        (Finished(p) /\ Parsed(p) /\ last.valid /\ last.day = day[p]) =>
            /\ start[p] = last.fs => fs = last.fs
            /\ (/\ IsFile(start[p], DayFile(D(p)))
                /\ \/ ~Exists(last.fs, DayFile(D(p)))
                   \/ last.fs.nodes[DayFile(D(p))] # start[p].nodes[DayFile(D(p))])
               => fs.nodes[DayFile(D(p))] = start[p].nodes[DayFile(D(p))]

C4_Witness ==
    /\ pc[1] = "done"
    /\ Parsed(1) /\ D(1) = 1
    /\ last.valid /\ last.day = day[1]
    /\ IsFile(last.fs, DayFile(1)) /\ IsFile(last.fs, Template)
    /\ last.fs.nodes[DayFile(1)].data = last.fs.nodes[Template].data
    /\ fs.nodes[DayFile(1)].data = "solved!"

C4_WitnessSame ==
    /\ pc[1] = "done"
    /\ Parsed(1) /\ D(1) = 2
    /\ last.valid /\ last.day = day[1]
    /\ start[1] = last.fs
    /\ IsFile(fs, DayFile(2))
    /\ fs = last.fs

\* C5: A `day` string that is no integer literal makes line 7 raise
\* ValueError: the call fails there, has run no command, and the filesystem
\* is the one the call started with.
C5_Step ==
    \A p \in Procs :
        (pc[p] = "int" /\ day[p].s \in BadArgs /\ pc'[p] # "int") =>
            /\ pc'[p] = "failed"
            /\ err'[p] = "ValueError"
            /\ ran'[p] = <<>>
            /\ fs' = fs
            /\ fs' = start'[p]

C5_ValueError == [][C5_Step]_vars

C5_Witness ==
    /\ pc[1] = "failed"
    /\ err[1] = "ValueError"
    /\ day[1] = Str(<<"a", "b", "c">>)
    /\ ran[1] = <<>>
    /\ fs = start[1]

\* C6: If templates/dayn.rs is missing and the day file is absent when
\* newday(d) is called, then once mkdir has created puzzles/<d>/ the call can
\* only end by failing at the cp command; the directory is not rolled back
\* and the day file still does not exist.
C6_CopyFails ==
    \A p \in Procs :
        (/\ MkdirDone(p)
         /\ ~Exists(start[p], Template)
         /\ ~Exists(start[p], DayFile(D(p)))) =>
            /\ pc[p] \notin {"done", "cp_write"}
            /\ IsDir(fs, PuzzleDir(D(p)))
            /\ ~Exists(fs, DayFile(D(p)))
            /\ pc[p] = "failed" =>
                  (ran[p] = <<"mkdir", "exists", "cp">> /\ err[p] = "UnexpectedExit")

C6_Witness ==
    /\ pc[1] = "failed"
    /\ err[1] = "UnexpectedExit"
    /\ ran[1] = <<"mkdir", "exists", "cp">>
    /\ ~Exists(start[1], Template)
    /\ IsDir(start[1], <<"src", "puzzles">>)
    /\ ~Exists(start[1], PuzzleDir(D(1)))
    /\ fs.nodes[PuzzleDir(D(1))] = Dir
    /\ ~Exists(fs, DayFile(D(1)))

\* puzzles/<d>/ cannot be created: a name on the way is taken by a regular
\* file, or the directory that would receive the new entry is read-only
CannotCreate(f, d) ==
    \/ IsFile(f, <<"puzzles">>)
    \/ IsFile(f, <<"puzzles", Fmt(d)>>)
    \/ ~Exists(f, <<"puzzles">>) /\ <<>> \in f.ro
    \/ IsDir(f, <<"puzzles">>) /\ ~Exists(f, <<"puzzles", Fmt(d)>>) /\ <<"puzzles">> \in f.ro

\* C7: If puzzles/<d>/ cannot be created, the mkdir command fails and the
\* call ends there with the error: the existence check and cp are never
\* run, the filesystem is not changed, and a failed call takes no further
\* step (nothing is retried).
C7_Step ==
    \A p \in Procs :
        /\ (pc[p] = "mkdir" /\ CannotCreate(fs, D(p)) /\ pc'[p] # "mkdir") =>
              /\ pc'[p] = "failed"
              /\ err'[p] = "UnexpectedExit"
              /\ ran'[p] = <<"mkdir">>
              /\ fs' = fs
        /\ pc[p] = "failed" =>
              /\ pc'[p] \in {"failed", "idle"}
              /\ ran'[p] \in {ran[p], <<>>}
              /\ fs' = fs

C7_MkdirFails == [][C7_Step]_vars

C7_Witness ==
    /\ pc[1] = "failed"
    /\ err[1] = "UnexpectedExit"
    /\ ran[1] = <<"mkdir">>
    /\ <<"puzzles">> \in fs.ro
    /\ ~Exists(fs, PuzzleDir(D(1)))
    /\ ~Exists(fs, DayFile(D(1)))
    /\ IsFile(fs, Template)
    /\ fs = start[1]

\* C8: Two invocations for different days, their steps interleaved in any
\* way and no one else writing: when both are over, the filesystem is the
\* one that running them one after the other leaves, in either order.
C8_DifferentDays ==
    (/\ \A p \in Procs : Finished(p) /\ Parsed(p)
     /\ D(1) # D(2)
     /\ edits = {}) =>
        /\ fs = NewdayResult(NewdayResult(base, D(1)), D(2))
        /\ fs = NewdayResult(NewdayResult(base, D(2)), D(1))

\* both calls created their files, the second began while the first had
\* made its directory but not yet its file
C8_Witness ==
    /\ pc[1] = "done" /\ pc[2] = "done"
    /\ Parsed(1) /\ Parsed(2) /\ D(1) # D(2)
    /\ edits = {}
    /\ ~Exists(base, <<"puzzles">>)
    /\ ~Exists(base, DayFile(D(1))) /\ ~Exists(base, DayFile(D(2)))
    /\ Exists(start[2], PuzzleDir(D(1))) /\ ~Exists(start[2], DayFile(D(1)))
    /\ ~Exists(start[1], PuzzleDir(D(2)))
    /\ IsFile(fs, DayFile(D(1))) /\ IsFile(fs, DayFile(D(2)))
    /\ lost[1] = NoText /\ lost[2] = NoText

\* C9: Frame, sequential use.  At every point of a call newday(d), on
\* success and on failure, everything that existed when the call began is
\* still there and unchanged (templates/dayn.rs, every other day's directory
\* and file, the permissions), and the only new entries are puzzles/<d>/
\* with its parent and src/puzzles/day<d>.rs.
C9_Frame ==
    \A p \in Procs :
        pc[p] # "idle" =>
            /\ fs.ro = start[p].ro
            /\ \A q \in DOMAIN start[p].nodes :
                  Exists(fs, q) /\ fs.nodes[q] = start[p].nodes[q]
            /\ \A q \in (DOMAIN fs.nodes) \ (DOMAIN start[p].nodes) :
                  /\ Parsed(p)
                  /\ q \in {<<"puzzles">>, PuzzleDir(D(p)), DayFile(D(p))}

C9_Witness ==
    /\ pc[1] = "done"
    /\ Parsed(1) /\ D(1) = 2
    /\ IsFile(start[1], DayFile(1)) /\ IsFile(start[1], Input1) /\ IsFile(start[1], Template)
    /\ ~Exists(start[1], PuzzleDir(2)) /\ ~Exists(start[1], DayFile(2))
    /\ fs.nodes[DayFile(1)] = File("solved!")
    /\ fs.nodes[Input1] = File("input")
    /\ fs.nodes[Template] = start[1].nodes[Template]
    /\ IsDir(fs, PuzzleDir(2)) /\ IsFile(fs, DayFile(2))

\* C10: Same-day race.  The existence check and cp are separate steps: an
\* invocation that found the day file absent still runs cp when the file has
\* appeared in the meantime, truncating and overwriting what another
\* newday(d) or a user's edit put there.  With two concurrent newday(d), no
\* other writer and the day file absent at the beginning, whenever both
\* calls have returned successfully puzzles/<d>/ exists and the day file
\* holds the template.
C10_Step ==
    \A p \in Procs :
        /\ (/\ pc[p] = "cp" /\ pc'[p] # "cp"
            /\ IsFile(fs, Template) /\ IsFile(fs, DayFile(D(p)))) =>
              /\ pc'[p] = "cp_write"
              /\ fs'.nodes[DayFile(D(p))] = File("")
              /\ lost'[p] = fs.nodes[DayFile(D(p))].data
        /\ (pc[p] = "cp_write" /\ pc'[p] # "cp_write") =>
              /\ pc'[p] = "done"
              /\ IsFile(fs', Template)
              /\ fs'.nodes[DayFile(D(p))] = fs'.nodes[Template]

C10_End ==
    (/\ \A p \in Procs : pc[p] = "done" /\ Parsed(p)
     /\ D(1) = D(2)
     /\ edits = {}
     /\ ~Exists(base, DayFile(D(1)))) =>
        /\ IsDir(fs, PuzzleDir(D(1)))
        /\ IsFile(fs, DayFile(D(1))) /\ IsFile(fs, Template)
        /\ fs.nodes[DayFile(D(1))] = fs.nodes[Template]

C10_SameDayRace == [][C10_Step]_vars /\ []C10_End

\* a user's edit landed between the check and the copy and was overwritten
C10_Witness ==
    \E p \in Procs :
        /\ pc[p] = "done"
        /\ ~Exists(start[p], DayFile(D(p)))
        /\ lost[p] = "solved!"
        /\ fs.nodes[DayFile(D(p))] = fs.nodes[Template]

\* both calls of a same-day race ran cp, the second over the first's copy
C10_WitnessTwoCopies ==
    /\ pc[1] = "done" /\ pc[2] = "done"
    /\ D(1) = D(2)
    /\ edits = {}
    /\ ~Exists(base, DayFile(D(1)))
    /\ lost[1] = NoText
    /\ lost[2] \in TemplateTexts
    /\ fs.nodes[DayFile(D(1))] = fs.nodes[Template]

====
